---- MODULE Spec2Model ----
(***************************************************************************)
(* A model of the Titanic feature-engineering and ensembling pipeline:     *)
(*   main.py                extract_title, ticket_counts,                  *)
(*                          create_dummy_nans, impute, main,               *)
(*                          pre_process_data, custom_classifier            *)
(*   titanic_classifier.py  SurvivalClassifier                             *)
(*                                                                         *)
(* Strings that the code cuts up are sequences of one-character strings.   *)
(* A cell of a data frame is <<>> (NaN) or <<v>> (the value v), so that    *)
(* every comparison with NaN is false, as it is in numpy.                  *)
(***************************************************************************)
EXTENDS Integers, Sequences, FiniteSets, TLC

VARIABLES
    \* extract_title
    x,          \* the name handed to extract_title
    title,      \* what extract_title returned
    \* ticket_counts, create_dummy_nans, impute
    input,      \* the frame as it was when the function was called
    data,       \* the caller's frame object, which the function may change
    ret,        \* the frame the function returned
    \* all four functions
    outcome,    \* "idle" | "call" | "returned" | "IndexError" | "AssertionError"
    \* main, custom_classifier
    pc,         \* position in the entry point
    files,      \* temp/ and output files: name -> "absent" | kind of content
    frame,      \* kind of the data held by the entry point
    log,        \* the steps taken so far, in order
    \* SurvivalClassifier
    models,     \* self.models: each model's name and what it was last fitted on
    result,     \* self.result
    test_x,     \* number of rows of self.test_x
    test_file,  \* PassengerId column of the file named test_file_name
    out_file,   \* rows of the file named output_file_name
    last,       \* the last library call: what was handed to it, what it gave
    calls       \* number of method calls so far

vars == <<x, title, input, data, ret, outcome, pc, files, frame, log,
          models, result, test_x, test_file, out_file, last, calls>>

titleVars == <<x, title>>
frameVars == <<input, data, ret>>
pipeVars  == <<pc, files, frame, log>>
clfVars   == <<models, result, test_x, test_file, out_file, calls>>

-----------------------------------------------------------------------------
(* Cells and frames *)

NaN == <<>>
V(v) == <<v>>
IsNaN(c) == c = NaN

\* numpy's elementwise c == k and c > k: False on NaN
CellEq(c, k) == c # NaN /\ c[1] = k
CellGt(c, k) == c # NaN /\ c[1] > k

NoFrame == [cols |-> <<>>, val |-> <<>>]

Range(s) == {s[i] : i \in DOMAIN s}

\* list(data): the column names in order
Columns(f) == f.cols

NRows(f) == IF f.cols = <<>> THEN 0 ELSE Len(f.val[f.cols[1]])

\* data[c] = v: replaces the column in place, or appends a new one
SetCol(f, c, v) ==
    IF c \in Range(f.cols)
    THEN [f EXCEPT !.val[c] = v]
    ELSE [cols |-> Append(f.cols, c),
          val  |-> [k \in Range(f.cols) \cup {c} |->
                        IF k = c THEN v ELSE f.val[k]]]

\* data.drop(cs, axis=1)
Drop(f, cs) ==
    LET Keep(c) == c \notin cs
        kept == SelectSeq(f.cols, Keep)
    IN  [cols |-> kept, val |-> [k \in Range(kept) |-> f.val[k]]]

\* a frame from a sequence of column names and a function giving each column
MkFrame(cs, v) == [cols |-> cs, val |-> [k \in Range(cs) |-> v[k]]]

-----------------------------------------------------------------------------
(* Idle values of the variables a specification does not use *)

TitleIdle == x = <<>> /\ title = <<>>
FrameIdle == input = NoFrame /\ data = NoFrame /\ ret = NoFrame
PipeIdle  == pc = "idle" /\ files = <<>> /\ frame = "none" /\ log = <<>>
ClfIdle   == /\ models = <<>> /\ result = <<>> /\ test_x = 0
             /\ test_file = <<>> /\ out_file = [written |-> FALSE]
             /\ calls = 0
NoCall    == [op |-> "none"]

-----------------------------------------------------------------------------
(* extract_title: main.py 31-44 *)

\* first index of character c in s, or 0
RECURSIVE IndexFrom(_, _, _)
IndexFrom(s, c, i) ==
    IF i > Len(s) THEN 0
    ELSE IF s[i] = c THEN i
    ELSE IndexFrom(s, c, i + 1)

Find(s, c) == IndexFrom(s, c, 1)

\* str.split(c) for a one-character separator
RECURSIVE Split(_, _)
Split(s, c) ==
    LET i == Find(s, c)
    IN  IF i = 0 THEN <<s>>
        ELSE <<SubSeq(s, 1, i - 1)>> \o Split(SubSeq(s, i + 1, Len(s)), c)

\* s[1:]
Drop1(s) == SubSeq(s, 2, Len(s))

Mlle       == <<"M", "l", "l", "e">>
Ms         == <<"M", "s">>
Mme        == <<"M", "m", "e">>
Miss       == <<"M", "i", "s", "s">>
Mrs        == <<"M", "r", "s">>
Mr         == <<"M", "r">>
Master     == <<"M", "a", "s", "t", "e", "r">>
Rev        == <<"R", "e", "v">>
Dr         == <<"D", "r">>
Major      == <<"M", "a", "j", "o", "r">>
Col        == <<"C", "o", "l">>
Capt       == <<"C", "a", "p", "t">>
Jonkheer   == <<"J", "o", "n", "k", "h", "e", "e", "r">>
Dona       == <<"D", "o", "n", "a">>
Don        == <<"D", "o", "n">>
Lady       == <<"L", "a", "d", "y">>
Sir        == <<"S", "i", "r">>
TheCountess == <<"t", "h", "e", " ", "C", "o", "u", "n", "t", "e", "s", "s">>
Esteemed   == <<"E", "s", "t", "e", "e", "m", "e", "d">>
Royalty    == <<"R", "o", "y", "a", "l", "t", "y">>

MissList     == {Mlle, Ms}
MrsList      == {Mme}
EsteemedList == {Rev, Dr, Major, Col, Capt, Jonkheer, Dona}
RoyaltyList  == {Don, Lady, Sir, TheCountess}

\* lines 36-43: the if / elif chain
Combine(t) ==
    IF t \in MissList THEN Miss
    ELSE IF t \in MrsList THEN Mrs
    ELSE IF t \in EsteemedList THEN Esteemed
    ELSE IF t \in RoyaltyList THEN Royalty
    ELSE t

\* a plausible slip: the leading character is not dropped
RawTitleKeepsFirst(s) == Split(Split(s, ",")[2], ".")[1]

\* line 35: x.split(',')[1].split('.')[0][1:]
RawTitle(s) == Drop1(Split(Split(s, ",")[2], ".")[1])

\* line 35 raises IndexError when the name holds no ','
RaisesIndexError(s) == Len(Split(s, ",")) < 2

extract_title(s) == Combine(RawTitle(s))

(* The names tried: a last name, then two title-like words and a first name,
   each introduced by a separator.  The set holds the data's own shape
   ("Last, Title. First") and names with no comma, a comma without a space,
   a second comma before the period, and no period. *)
LastNames == {<<"A", "b">>}
FirstNames == {<<"J", "o">>}
Seps == {<<",", " ">>, <<",">>, <<".", " ">>, <<".">>, <<" ">>}
Words1 == MissList \cup MrsList \cup EsteemedList \cup RoyaltyList
            \cup {Mr, Mrs, Miss, Master, Esteemed, Royalty, <<>>}
Words2 == {Mr, Ms, <<>>}

Names == {l \o s1 \o w1 \o s2 \o w2 \o s3 \o f :
            l \in LastNames, s1 \in Seps, w1 \in Words1, s2 \in Seps,
            w2 \in Words2, s3 \in Seps, f \in FirstNames}

TitleInit ==
    /\ x \in Names
    /\ title = <<>>
    /\ outcome = "call"
    /\ last = NoCall
    /\ FrameIdle /\ PipeIdle /\ ClfIdle

\* line 101: Name.map(extract_title), one name
ExtractTitle ==
    /\ outcome = "call"
    /\ IF RaisesIndexError(x)
       THEN outcome' = "IndexError" /\ title' = title
       ELSE outcome' = "returned" /\ title' = extract_title(x)
    /\ UNCHANGED <<x, last, frameVars, pipeVars, clfVars>>

TitleNext == ExtractTitle

SpecTitle == TitleInit /\ [][TitleNext]_vars

(* What the claim's words say, read off the name by position. *)

\* first i with s[i] = ',' and s[i+1] = ' ', or 0
RECURSIVE CommaSpaceFrom(_, _)
CommaSpaceFrom(s, i) ==
    IF i >= Len(s) THEN 0
    ELSE IF s[i] = "," /\ s[i + 1] = " " THEN i
    ELSE CommaSpaceFrom(s, i + 1)

\* the text between the first ', ' and the following '.'
HasCommaSpaceDot(s) ==
    LET i == CommaSpaceFrom(s, 1)
    IN  i > 0 /\ IndexFrom(s, ".", i + 2) > 0

TextBetween(s) ==
    LET i == CommaSpaceFrom(s, 1)
        j == IndexFrom(s, ".", i + 2)
    IN  SubSeq(s, i + 2, j - 1)

\* first index from i on of a ',' or a '.', or Len(s) + 1
RECURSIVE StopFrom(_, _)
StopFrom(s, i) ==
    IF i > Len(s) THEN i
    ELSE IF s[i] \in {",", "."} THEN i
    ELSE StopFrom(s, i + 1)

\* the text after the first ',' and the one character that follows it, up to
\* the next ',' or '.' or the end of the name
SecondField(s) ==
    LET i == Find(s, ",")
    IN  SubSeq(s, i + 2, StopFrom(s, i + 1) - 1)

\* the data's shape: the first ',' is followed by a space, and the next
\* ',' or '.' after it is a '.'
WellFormed(s) ==
    LET i == Find(s, ",")
        j == StopFrom(s, i + 1)
    IN  /\ i > 0 /\ i < Len(s) /\ s[i + 1] = " "
        /\ j <= Len(s) /\ s[j] = "."

Remapped == MissList \cup MrsList \cup EsteemedList \cup RoyaltyList

\* C3 as stated: the title is the text between the first ', ' and the
\* following '.', combined.  Violated: "Ab, Mlle, Mr. Jo" gives 'Miss', and the
\* text between the first ', ' and the following '.' is 'Mlle, Mr'.
C3_AsStated ==
    (outcome = "returned" /\ HasCommaSpaceDot(x))
        => title = Combine(TextBetween(x))

\* C3 amended: for every name holding a ',', extract_title returns the text
\* after the first ',' and the character following it, up to the next ',' or
\* '.' (or the end), with the listed titles combined and every other title
\* unchanged; for a name of the data's shape this is the text between the
\* first ', ' and the following '.'; no returned title is on a remapped list,
\* so combining again changes nothing; a name with no ',' raises IndexError.
C3_ExtractTitle ==
    /\ outcome = "IndexError" <=> (Find(x, ",") = 0 /\ outcome # "call")
    /\ outcome = "returned" =>
        /\ LET t == SecondField(x)
           IN  /\ t \in {Mlle, Ms} => title = Miss
               /\ t = Mme => title = Mrs
               /\ t \in {Rev, Dr, Major, Col, Capt, Jonkheer, Dona}
                    => title = Esteemed
               /\ t \in {Don, Lady, Sir, TheCountess} => title = Royalty
               /\ t \notin Remapped => title = t
        /\ WellFormed(x) =>
               (HasCommaSpaceDot(x) /\ title = Combine(TextBetween(x)))
        /\ title \notin Remapped
        /\ Combine(title) = title

\* a name of the data's shape whose title is remapped has been through
\* extract_title
C3_Witness ==
    /\ outcome = "returned"
    /\ WellFormed(x)
    /\ SecondField(x) = TheCountess
    /\ title = Royalty

\* a name with a second comma before the period has been through
\* extract_title, which returned the first of its two words
C3_SecondComma ==
    /\ outcome = "returned"
    /\ x = <<"A", "b">> \o <<",", " ">> \o Mlle \o <<",", " ">> \o Mr
             \o <<".", " ">> \o <<"J", "o">>
    /\ title = Miss

-----------------------------------------------------------------------------
(* ticket_counts: main.py 50-56 *)

MaxTicketRows == 4
TicketValues == {"A", "B", "C"}

\* line 53: dict(data.Ticket.value_counts()); value_counts leaves NaN out
value_counts(col) ==
    [v \in {c[1] : c \in {d \in Range(col) : d # NaN}} |->
        Cardinality({i \in DOMAIN col : col[i] = V(v)})]

\* line 54: data['Ticket'].map(ticket_to_count.get); dict.get gives None
\* (NaN in the new column) for a key the dict does not hold
MapGet(col, d) ==
    [i \in DOMAIN col |->
        IF col[i] # NaN /\ col[i][1] \in DOMAIN d THEN V(d[col[i][1]]) ELSE NaN]

\* a plausible slip: a ticket is shared from three rows on
SharedFromThree(c) == CellGt(c, 2)

\* line 55: data['TicketCount'] > 1
Shared(c) == CellGt(c, 1)

\* line 55: np.where(data['TicketCount'] > 1, data['Ticket'], np.nan)
WhereShared(count, col) ==
    [i \in DOMAIN col |-> IF Shared(count[i]) THEN col[i] ELSE NaN]

\* lines 53-55, on the caller's frame
ticket_counts_inplace(d) ==
    LET ticket_to_count == value_counts(d.val["Ticket"])
        d1 == SetCol(d, "TicketCount", MapGet(d.val["Ticket"], ticket_to_count))
    IN  SetCol(d1, "Ticket", WhereShared(d1.val["TicketCount"], d1.val["Ticket"]))

\* line 56
ticket_counts(d) == Drop(ticket_counts_inplace(d), {"TicketCount"})

Ids(n) == [i \in 1..n |-> V(i)]

TicketInit ==
    /\ \E n \in 0..MaxTicketRows :
         \E t \in [1..n -> {NaN} \cup {V(v) : v \in TicketValues}] :
            input = MkFrame(<<"PassengerId", "Ticket">>,
                            [k \in {"PassengerId", "Ticket"} |->
                                IF k = "Ticket" THEN t ELSE Ids(n)])
    /\ data = input
    /\ ret = NoFrame
    /\ outcome = "call"
    /\ last = NoCall
    /\ TitleIdle /\ PipeIdle /\ ClfIdle

\* line 116: .pipe(ticket_counts)
TicketCounts ==
    /\ outcome = "call"
    /\ data' = ticket_counts_inplace(data)
    /\ ret' = ticket_counts(data)
    /\ outcome' = "returned"
    /\ UNCHANGED <<input, last, titleVars, pipeVars, clfVars>>

TicketNext == TicketCounts

SpecTicket == TicketInit /\ [][TicketNext]_vars

\* the number of rows of the frame that hold ticket value c
Occurrences(f, c) ==
    Cardinality({i \in 1..NRows(f) : f.val["Ticket"][i] = c})

\* C4: ticket_counts keeps a row's Ticket exactly when that ticket occurs on
\* 2 or more rows and makes it NaN when it occurs on exactly one row (a
\* missing Ticket stays missing); the returned frame has no TicketCount
\* column, as many rows as the input, and its rows in the input's order.
C4_TicketCounts ==
    outcome = "returned" =>
        /\ "TicketCount" \notin Range(Columns(ret))
        /\ Columns(ret) = Columns(input)
        /\ NRows(ret) = NRows(input)
        /\ Len(ret.val["Ticket"]) = NRows(input)
        /\ ret.val["PassengerId"] = input.val["PassengerId"]
        /\ \A i \in 1..NRows(input) :
             LET c == input.val["Ticket"][i]
             IN  /\ c = NaN => ret.val["Ticket"][i] = NaN
                 /\ c # NaN =>
                      /\ (ret.val["Ticket"][i] = c <=> Occurrences(input, c) >= 2)
                      /\ Occurrences(input, c) = 1 => ret.val["Ticket"][i] = NaN

\* a frame with a ticket on two rows (kept), a ticket on one row (made NaN)
\* and a missing ticket has been through ticket_counts
C4_Witness ==
    /\ outcome = "returned"
    /\ input.val["Ticket"] = <<V("A"), V("B"), V("A"), NaN>>
    /\ ret.val["Ticket"] = <<V("A"), NaN, V("A"), NaN>>

-----------------------------------------------------------------------------
(* create_dummy_nans: main.py 68-76 *)

MaxDummyRows == 2

Deck_    == <<"D", "e", "c", "k", "_">>
Deck_A   == Deck_ \o <<"A">>
Deck_B   == Deck_ \o <<"B">>
Deck_nan == Deck_ \o <<"n", "a", "n">>
Fare     == <<"F", "a", "r", "e">>

\* sub in s, for strings
Contains(sub, s) ==
    \E i \in 0..(Len(s) - Len(sub)) : SubSeq(s, i + 1, i + Len(sub)) = sub

\* line 72: [col for col in list(data) if col_name in col]
deck_cols(d, col_name) ==
    LET Match(c) == Contains(col_name, c)
    IN  SelectSeq(Columns(d), Match)

\* lines 74-75: np.where(data[col_name + 'nan'] == 1.0, np.nan, data[deck_col]),
\* with the indicator column as it is when this column's turn comes
WhereNan(d, ind, c) ==
    [i \in 1..NRows(d) |->
        IF CellEq(d.val[ind][i], 1) THEN NaN ELSE d.val[c][i]]

\* lines 73-75: the loop over deck_cols, from its k-th column on
RECURSIVE DummyLoop(_, _, _, _)
DummyLoop(d, cs, k, ind) ==
    IF k > Len(cs) THEN d
    ELSE DummyLoop(SetCol(d, cs[k], WhereNan(d, ind, cs[k])), cs, k + 1, ind)

create_dummy_nans_inplace(d, col_name) ==
    DummyLoop(d, deck_cols(d, col_name), 1, col_name \o <<"n", "a", "n">>)

\* line 76
create_dummy_nans(d, col_name) ==
    Drop(create_dummy_nans_inplace(d, col_name), {col_name \o <<"n", "a", "n">>})

DummyCols == {Deck_A, Deck_B, Deck_nan, Fare}

\* the orders of the four columns
ColumnOrders ==
    {o \in [1..4 -> DummyCols] : \A i, j \in 1..4 : i # j => o[i] # o[j]}

DummyInit ==
    /\ \E n \in 1..MaxDummyRows, o \in ColumnOrders :
         \E v \in [{Deck_A, Deck_B, Deck_nan} -> [1..n -> {V(0), V(1)}]] :
            input = MkFrame(o, [k \in DummyCols |->
                                  IF k = Fare THEN [i \in 1..n |-> V(7)]
                                  ELSE v[k]])
    /\ data = input
    /\ ret = NoFrame
    /\ outcome = "call"
    /\ last = NoCall
    /\ TitleIdle /\ PipeIdle /\ ClfIdle

\* line 123: .pipe(create_dummy_nans, 'Deck_')
CreateDummyNans ==
    /\ outcome = "call"
    /\ data' = create_dummy_nans_inplace(data, Deck_)
    /\ ret' = create_dummy_nans(data, Deck_)
    /\ outcome' = "returned"
    /\ UNCHANGED <<input, last, titleVars, pipeVars, clfVars>>

DummyNext == CreateDummyNans

SpecDummy == DummyInit /\ [][DummyNext]_vars

\* the dummy columns of the claim: those whose name contains col_name, the
\* indicator aside
Dummies(f) ==
    {c \in Range(Columns(f)) : Contains(Deck_, c) /\ c # Deck_nan}

\* position of column c in the frame
Position(f, c) == CHOOSE i \in DOMAIN f.cols : f.cols[i] = c

\* the order pd.get_dummies(dummy_na=True) gives, lines 121-122: the
\* indicator after every other dummy column
IndicatorLast(f) ==
    \A c \in Dummies(f) : Position(f, c) < Position(f, Deck_nan)

NansPreserved(f, r) ==
    /\ Deck_nan \notin Range(Columns(r))
    /\ Range(Columns(r)) = Range(Columns(f)) \ {Deck_nan}
    /\ \A i \in 1..NRows(f) : \A c \in Dummies(f) :
         IF f.val[Deck_nan][i] = V(1)
         THEN r.val[c][i] = NaN
         ELSE r.val[c][i] = f.val[c][i]
    /\ r.val[Fare] = f.val[Fare]

\* C5: create_dummy_nans makes every dummy column NaN on the rows whose
\* indicator is 1, leaves the other rows alone and drops the indicator,
\* wherever the indicator column stands among the frame's columns.
C5_AnyPosition ==
    outcome = "returned" => NansPreserved(input, ret)

\* what the code does do: the claim's result when the indicator stands after
\* every dummy column; a dummy column standing after the indicator is
\* returned unchanged on every row
C5_ByPosition ==
    outcome = "returned" =>
        /\ IndicatorLast(input) => NansPreserved(input, ret)
        /\ \A c \in Dummies(input) :
             Position(input, c) > Position(input, Deck_nan)
                => ret.val[c] = input.val[c]

C5_IndicatorLastReached ==
    /\ outcome = "returned"
    /\ IndicatorLast(input)
    /\ \E i \in 1..NRows(input) : input.val[Deck_nan][i] = V(1)

-----------------------------------------------------------------------------
(* impute: main.py 79-94 *)

MaxImputeRows == 2

ImputeCols == <<"Survived", "Age", "Train", "Fare">>

CellsOf(k) ==
    CASE k = "Age"      -> {NaN, V(1)}
      [] k = "Fare"     -> {NaN, V(2)}
      [] k = "Train"    -> {V(0), V(1)}
      [] k = "Survived" -> {NaN, V(0), V(-999)}

\* what the imputer may put in a missing cell: an estimate, or nothing
Estimates == {NaN, V(5)}

\* line 86: fancyimpute.MICE().complete(array): the arrays of the same shape
\* that agree with the argument on every cell that is not missing
MICE_complete(f) ==
    LET Completions(col) ==
            {c \in [DOMAIN col -> Estimates \cup Range(col)] :
                \A i \in DOMAIN col :
                    IF col[i] = NaN THEN c[i] \in Estimates ELSE c[i] = col[i]}
    IN  {g \in [Range(f.cols) -> UNION {Completions(f.val[k]) : k \in Range(f.cols)}] :
            \A k \in Range(f.cols) : g[k] \in Completions(f.val[k])}

\* a plausible slip: the check is not made
IsNullSumSkipped(r) == 0

\* line 92: results.isnull().sum().sum()
IsNullSum(r) ==
    Cardinality({<<k, i>> \in Range(r.cols) \X (1..NRows(r)) : r.val[k][i] = NaN})

\* line 83
impute_missing(d) == Drop(d, {"Survived", "Train"})

\* lines 89-91: the frame built from the imputer's array, then the two
\* columns of the argument
results(d, filled_soft) ==
    LET r0 == [cols |-> Columns(impute_missing(d)), val |-> filled_soft]
        r1 == SetCol(r0, "Train", d.val["Train"])
    IN  SetCol(r1, "Survived", d.val["Survived"])

ImputeInit ==
    /\ \E n \in 0..MaxImputeRows :
         \E age \in [1..n -> CellsOf("Age")], fare \in [1..n -> CellsOf("Fare")],
            train \in [1..n -> CellsOf("Train")],
            survived \in [1..n -> CellsOf("Survived")] :
            input = MkFrame(ImputeCols,
                            [k \in Range(ImputeCols) |->
                                CASE k = "Age"      -> age
                                  [] k = "Fare"     -> fare
                                  [] k = "Train"    -> train
                                  [] k = "Survived" -> survived])
    /\ data = input
    /\ ret = NoFrame
    /\ outcome = "call"
    /\ last = NoCall
    /\ TitleIdle /\ PipeIdle /\ ClfIdle

\* line 131: .pipe(impute)
Impute ==
    /\ outcome = "call"
    /\ \E filled_soft \in MICE_complete(impute_missing(data)) :
         LET r == results(data, filled_soft)
         IN  /\ last' = [op |-> "MICE.complete",
                         cols |-> Columns(impute_missing(data)),
                         gave |-> filled_soft]
             /\ IF IsNullSum(r) = 0
                THEN outcome' = "returned" /\ ret' = r
                ELSE outcome' = "AssertionError" /\ ret' = ret
    /\ UNCHANGED <<input, data, titleVars, pipeVars, clfVars>>

ImputeNext == Impute

SpecImpute == ImputeInit /\ [][ImputeNext]_vars

HasMissing(f) ==
    \E k \in Range(f.cols) : \E i \in 1..NRows(f) : f.val[k][i] = NaN

\* C6: impute returns a frame with no missing cell or fails with the
\* assertion 'Not all NAs removed', and never returns a frame with a missing
\* cell; the returned frame has the input's Train and Survived columns, row
\* for row, and the input's number of rows; Train and Survived were not
\* handed to the imputer.
C6_Impute ==
    /\ outcome \in {"call", "returned", "AssertionError"}
    /\ outcome = "AssertionError" => ret = NoFrame
    /\ outcome = "returned" =>
        /\ ~HasMissing(ret)
        /\ Range(Columns(ret)) = Range(Columns(input))
        /\ \A k \in Range(Columns(ret)) : Len(ret.val[k]) = NRows(input)
        /\ ret.val["Train"] = input.val["Train"]
        /\ ret.val["Survived"] = input.val["Survived"]
        /\ last.op = "MICE.complete"
        /\ "Train" \notin Range(last.cols)
        /\ "Survived" \notin Range(last.cols)

\* impute has returned a frame whose missing Age cell the imputer filled
C6_Witness ==
    /\ outcome = "returned"
    /\ NRows(input) = 2
    /\ input.val["Age"][1] = NaN
    /\ ret.val["Age"][1] = V(5)
    /\ ret.val["Survived"] = <<V(0), V(-999)>>

\* the assertion has stopped a frame the imputer left a missing cell in
C6_AssertionReached ==
    /\ outcome = "AssertionError"
    /\ HasMissing([cols |-> last.cols, val |-> last.gave])

-----------------------------------------------------------------------------
(* SurvivalClassifier: titanic_classifier.py 13-219 *)

MaxCalls    == 4
MaxModels   == 2
MaxTestRows == 2

ModelNames == {"Logistic Regression", "Random Forest Classifier"}

NoFile == [written |-> FALSE]

\* what predict may return for n rows: one class per row
Predictions(n) == [1..n -> {0, 1}]

\* the first k registered models fitted in place on t
FitFirst(ms, k, t) ==
    [j \in DOMAIN ms |-> IF j <= k THEN [ms[j] EXCEPT !.fitted = t] ELSE ms[j]]

\* lines 14-22: __init__
ClfInit ==
    /\ models = <<>>
    /\ result = <<>>
    /\ test_x \in 0..MaxTestRows
    /\ test_file \in {Ids(m) : m \in 0..MaxTestRows}
    /\ out_file = NoFile
    /\ calls = 0
    /\ last = [op |-> "__init__", ok |-> TRUE, combined |-> FALSE, pred |-> <<>>]
    /\ outcome = "idle"
    /\ TitleIdle /\ FrameIdle /\ PipeIdle

Called(op, ok) == [last EXCEPT !.op = op, !.ok = ok]

\* a combining call that got y_prediction from the library
Combined(op, y_prediction) ==
    [op |-> op, ok |-> TRUE, combined |-> TRUE, pred |-> y_prediction]

ClfRest == <<outcome, titleVars, frameVars, pipeVars>>

\* lines 24-29
append_model ==
    /\ calls < MaxCalls
    /\ Len(models) < MaxModels
    /\ \E name \in ModelNames :
         models' = Append(models, [name |-> name, fitted |-> "no"])
    /\ calls' = calls + 1
    /\ last' = Called("append_model", TRUE)
    /\ UNCHANGED <<result, test_x, test_file, out_file, ClfRest>>

\* lines 207-213; VotingClassifier.fit fits clones of the estimators, so the
\* registered models stay as they are
voting ==
    /\ calls < MaxCalls
    /\ calls' = calls + 1
    /\ \/ \* fit or predict raises (it does with no estimator)
          /\ last' = Called("voting", FALSE)
          /\ UNCHANGED result
       \/ /\ models # <<>>
          /\ \E y_prediction \in Predictions(test_x) :
               /\ result' = y_prediction
               /\ last' = Combined("voting", y_prediction)
    /\ UNCHANGED <<models, test_x, test_file, out_file, ClfRest>>

\* lines 140-175; model.fit fits the registered model itself
blending ==
    /\ calls < MaxCalls
    /\ calls' = calls + 1
    /\ \/ \* the k-th model's fit, or the blender, raises
          /\ \E k \in 0..Len(models) : models' = FitFirst(models, k, "fold")
          /\ last' = Called("blending", FALSE)
          /\ UNCHANGED result
       \/ /\ models # <<>>
          /\ models' = FitFirst(models, Len(models), "fold")
          /\ \E y_prediction \in Predictions(test_x) :
               /\ result' = y_prediction
               /\ last' = Combined("blending", y_prediction)
    /\ UNCHANGED <<test_x, test_file, out_file, ClfRest>>

\* a plausible slip: the prediction is left in a local
stacking_drops_result ==
    /\ calls < MaxCalls
    /\ calls' = calls + 1
    /\ \/ /\ \E k \in 0..Len(models) : models' = FitFirst(models, k, "half")
          /\ last' = Called("stacking", FALSE)
          /\ UNCHANGED result
       \/ /\ models # <<>>
          /\ models' = FitFirst(models, Len(models), "half")
          /\ \E y_prediction \in Predictions(test_x) :
               /\ UNCHANGED result
               /\ last' = Combined("stacking", y_prediction)
    /\ UNCHANGED <<test_x, test_file, out_file, ClfRest>>

\* lines 177-200
stacking ==
    /\ calls < MaxCalls
    /\ calls' = calls + 1
    /\ \/ \* the k-th model's fit, or the blender, raises
          /\ \E k \in 0..Len(models) : models' = FitFirst(models, k, "half")
          /\ last' = Called("stacking", FALSE)
          /\ UNCHANGED result
       \/ /\ models # <<>>
          /\ models' = FitFirst(models, Len(models), "half")
          /\ \E y_prediction \in Predictions(test_x) :
               /\ result' = y_prediction
               /\ last' = Combined("stacking", y_prediction)
    /\ UNCHANGED <<test_x, test_file, out_file, ClfRest>>

\* line 203-204: frame[['PassengerId']].assign(Survived=self.result)
Ensemble(ids, survived) ==
    [i \in DOMAIN ids |-> [PassengerId |-> ids[i][1], Survived |-> survived[i]]]

\* lines 202-205; assign raises ValueError when the lengths differ
flush_result ==
    /\ calls < MaxCalls
    /\ calls' = calls + 1
    /\ IF Len(result) = Len(test_file)
       THEN /\ out_file' = [written |-> TRUE, rows |-> Ensemble(test_file, result)]
            /\ last' = Called("flush_result", TRUE)
       ELSE /\ out_file' = out_file
            /\ last' = Called("flush_result", FALSE)
    /\ UNCHANGED <<models, result, test_x, test_file, ClfRest>>

ClfNext ==
    \/ append_model
    \/ voting
    \/ blending
    \/ stacking
    \/ flush_result

SpecClassifier == ClfInit /\ [][ClfNext]_vars

\* result is empty before the first combining call completes and afterwards
\* holds what the most recently completed one predicted, one class per row
\* of test_x
ResultIsLatest ==
    /\ ~last.combined => result = <<>>
    /\ last.combined => (result = last.pred /\ Len(result) = test_x)

\* a flush that wrote, wrote result paired row by row with PassengerId
FlushedPairs ==
    (last.op = "flush_result" /\ last.ok) =>
        /\ out_file.written
        /\ Len(out_file.rows) = Len(test_file)
        /\ \A i \in DOMAIN test_file :
             /\ out_file.rows[i].PassengerId = test_file[i][1]
             /\ out_file.rows[i].Survived = result[i]

\* a step of flush_result changes neither result nor the registered models
FlushKeeps ==
    last'.op = "flush_result" /\ calls' = calls + 1
        => UNCHANGED <<result, models>>

\* C2: after any sequence of voting, blending and stacking calls, result is
\* the predictions of the most recently completed one, one per row of
\* test_x, and the empty list before the first; flush_result writes result
\* paired row by row with PassengerId and changes neither result nor models.
C2_Result ==
    /\ [](ResultIsLatest /\ FlushedPairs)
    /\ [][FlushKeeps]_vars

\* a second combining call has replaced the first one's result, and
\* flush_result has written it
C2_Witness ==
    /\ last.op = "flush_result" /\ last.ok /\ last.combined
    /\ calls = 4
    /\ test_x = 2
    /\ result = <<1, 0>>
    /\ out_file.written /\ Len(out_file.rows) = 2
    /\ models # <<>> /\ models[1].fitted = "half"

-----------------------------------------------------------------------------
(* The entry points: main.py 277-284 (main), 287-297 (pre_process_data),
   300-397 (custom_classifier) *)

TempFiles == {"temp/train_x", "temp/train_y", "temp/test_x"}
OutFiles  == {"Output_titanic", "voting.csv"}

\* a plausible slip: the frame is handed on as it was read
feature_engineering_skipped(kind) == kind

\* lines 97-132: what feature_engineering makes of a frame
feature_engineering(kind) == "engineered"

\* line 305: all three temp files are there
Cached == \A f \in TempFiles : files[f] # "absent"

Step(s) == log' = Append(log, [step |-> s, on |-> frame])

PipeRest == <<x, title, frameVars, outcome, last, clfVars>>

\* temp/ holds what an earlier run's pre_process_data wrote, which may have
\* stopped before its last file
PipeInit ==
    /\ pc \in {"main", "custom_classifier"}
    /\ files \in [TempFiles \cup OutFiles -> {"absent", "engineered"}]
    /\ \A f \in OutFiles : files[f] = "absent"
    /\ frame = "none"
    /\ log = <<>>
    /\ outcome = "idle"
    /\ last = NoCall
    /\ TitleIdle /\ FrameIdle /\ ClfIdle

\* a library or file call raises: the entry point ends there
Raise(at) ==
    /\ pc \in at
    /\ pc' = "raised"
    /\ UNCHANGED <<files, frame, log, PipeRest>>

\* lines 278, 288 (19-25): ingest_data
IngestData ==
    /\ \/ pc = "main" /\ pc' = "main_fe"
       \/ pc = "pre_process_data" /\ pc' = "pre_fe"
    /\ frame' = "raw"
    /\ Step("read_csv")
    /\ UNCHANGED <<files, PipeRest>>

\* lines 279, 289
FeatureEngineering ==
    /\ \/ pc = "main_fe" /\ pc' = "main_split"
       \/ pc = "pre_fe" /\ pc' = "pre_split"
    /\ frame' = feature_engineering(frame)
    /\ Step("feature_engineering")
    /\ UNCHANGED <<files, PipeRest>>

\* lines 282, 293
SplitData ==
    /\ \/ pc = "main_split" /\ pc' = "main_fit"
       \/ pc = "pre_split" /\ pc' = "pre_write_train_x"
    /\ Step("split_data")
    /\ UNCHANGED <<files, frame, PipeRest>>

\* line 204, in vote_classifier, called from model_and_submit (272)
MainFit ==
    /\ pc = "main_fit" /\ pc' = "main_read_test"
    /\ Step("fit")
    /\ UNCHANGED <<files, frame, PipeRest>>

\* line 206: pd.read_csv('data/test.csv'), evaluated before predict
MainReadTest ==
    /\ pc = "main_read_test" /\ pc' = "main_predict"
    /\ Step("read_csv")
    /\ UNCHANGED <<files, frame, PipeRest>>

\* line 207
MainPredict ==
    /\ pc = "main_predict" /\ pc' = "main_write"
    /\ Step("predict")
    /\ UNCHANGED <<files, frame, PipeRest>>

\* line 209
MainWrite ==
    /\ pc = "main_write" /\ pc' = "done"
    /\ files' = [files EXCEPT !["Output_titanic"] = "submission"]
    /\ Step("write_submission")
    /\ UNCHANGED <<frame, PipeRest>>

\* lines 305-306
CheckTemp ==
    /\ pc = "custom_classifier"
    /\ pc' = IF Cached THEN "read_train_x" ELSE "pre_process_data"
    /\ UNCHANGED <<files, frame, log, PipeRest>>

\* lines 295-297
WriteTemp ==
    /\ \/ /\ pc = "pre_write_train_x" /\ pc' = "pre_write_train_y"
          /\ files' = [files EXCEPT !["temp/train_x"] = frame]
       \/ /\ pc = "pre_write_train_y" /\ pc' = "pre_write_test_x"
          /\ files' = [files EXCEPT !["temp/train_y"] = frame]
       \/ /\ pc = "pre_write_test_x" /\ pc' = "read_train_x"
          /\ files' = [files EXCEPT !["temp/test_x"] = frame]
    /\ Step("write_temp")
    /\ UNCHANGED <<frame, PipeRest>>

\* the kind of train_x, train_y and test_x taken together: engineered when
\* each is
Both(a, b) == IF a = "engineered" /\ b = "engineered" THEN "engineered" ELSE "raw"

\* lines 308-310
ReadTemp ==
    /\ \/ /\ pc = "read_train_x" /\ pc' = "read_train_y"
          /\ files["temp/train_x"] # "absent"
          /\ frame' = files["temp/train_x"]
       \/ /\ pc = "read_train_y" /\ pc' = "read_test_x"
          /\ files["temp/train_y"] # "absent"
          /\ frame' = Both(frame, files["temp/train_y"])
       \/ /\ pc = "read_test_x" /\ pc' = "construct"
          /\ files["temp/test_x"] # "absent"
          /\ frame' = Both(frame, files["temp/test_x"])
    /\ Step("read_csv")
    /\ UNCHANGED <<files, PipeRest>>

\* lines 312-366: SurvivalClassifier(...) and the append_model calls
Construct ==
    /\ pc = "construct" /\ pc' = "voting_fit"
    /\ Step("construct")
    /\ UNCHANGED <<files, frame, PipeRest>>

\* line 396: voting(), titanic_classifier.py 209
VotingFit ==
    /\ pc = "voting_fit" /\ pc' = "voting_predict"
    /\ Step("fit")
    /\ UNCHANGED <<files, frame, PipeRest>>

\* titanic_classifier.py 211
VotingPredict ==
    /\ pc = "voting_predict" /\ pc' = "flush_read"
    /\ Step("predict")
    /\ UNCHANGED <<files, frame, PipeRest>>

\* line 397: flush_result, titanic_classifier.py 203
FlushRead ==
    /\ pc = "flush_read" /\ pc' = "flush_write"
    /\ Step("read_csv")
    /\ UNCHANGED <<files, frame, PipeRest>>

\* titanic_classifier.py 205
FlushWrite ==
    /\ pc = "flush_write" /\ pc' = "done"
    /\ files' = [files EXCEPT !["voting.csv"] = "submission"]
    /\ Step("write_submission")
    /\ UNCHANGED <<frame, PipeRest>>

\* the calls into the libraries and the file system, any of which may raise
MayRaise ==
    {"main", "pre_process_data", "main_fe", "pre_fe", "main_fit",
     "main_read_test", "main_predict", "main_write",
     "pre_write_train_x", "pre_write_train_y", "pre_write_test_x",
     "read_train_x", "read_train_y", "read_test_x",
     "voting_fit", "voting_predict", "flush_read", "flush_write"}

PipeNext ==
    \/ IngestData
    \/ FeatureEngineering
    \/ SplitData
    \/ MainFit
    \/ MainReadTest
    \/ MainPredict
    \/ MainWrite
    \/ CheckTemp
    \/ WriteTemp
    \/ ReadTemp
    \/ Construct
    \/ VotingFit
    \/ VotingPredict
    \/ FlushRead
    \/ FlushWrite
    \/ Raise(MayRaise)

SpecPipeline == PipeInit /\ [][PipeNext]_vars

At(s) == {i \in DOMAIN log : log[i].step = s}

\* C1: the submission file is written only after a fit and then a predict
\* have completed, these only after a CSV was read, and fit is only called on
\* data that went through feature_engineering, in this run (after the read)
\* or in the run that wrote the temp files.
C1_Order ==
    /\ \A w \in At("write_submission") :
         \E f \in At("fit"), p \in At("predict") : f < p /\ p < w
    /\ (\E o \in OutFiles : files[o] # "absent") => At("write_submission") # {}
    /\ \A f \in At("fit") :
         /\ log[f].on = "engineered"
         /\ \E r \in At("read_csv") : r < f
         /\ \/ \E r \in At("read_csv"), t \in At("feature_engineering") :
                 r < t /\ t < f
            \/ /\ At("feature_engineering") = {}
               /\ \A t \in TempFiles : files[t] = "engineered"
    /\ \A t \in At("feature_engineering") : \E r \in At("read_csv") : r < t

\* custom_classifier has run from the cached temp files to its submission
C1_WitnessCached ==
    /\ pc = "done"
    /\ files["voting.csv"] = "submission"
    /\ At("feature_engineering") = {}

\* main has run to its submission
C1_Witness ==
    /\ pc = "done"
    /\ files["Output_titanic"] = "submission"
    /\ At("feature_engineering") # {}

====
